---- MODULE Spec2Model ----
(***************************************************************************)
(* lapor-bot: daily activity reports (#lapor) with per-member streaks.     *)
(*                                                                         *)
(* The transport starts one goroutine per inbound message                  *)
(* (wa.Service.registerEventHandlers).  A goroutine that handles a #lapor  *)
(* message runs ReportActivityUsecase.Execute: one GetReport, one          *)
(* time.Now(), the streak rule, and (unless rejected) one UpsertReport.    *)
(* The two repository calls are single SQL statements, each atomic; the    *)
(* goroutines interleave between them.                                     *)
(*                                                                         *)
(* Time.  An instant is a whole number of ticks, TicksPerDay ticks to the  *)
(* calendar day, plus a sub-second remainder `frac` that the RFC3339 text  *)
(* form drops.  A time.Time value carries the UTC offset of its Location.  *)
(***************************************************************************)
EXTENDS Integers, Sequences, FiniteSets, TLC

\* ------------------------------------------------------------------ bounds
MaxClock == 5          \* the wall clock runs over instants 0..MaxClock
MaxCalls == 3          \* inbound messages handled in one behaviour

TicksPerDay == 2       \* length of a calendar day, in ticks
MaxStreak == 2         \* largest streak in a table drawn for the leaderboard

Users   == {"u1", "u2"}        \* member identifiers (evt.Info.Sender)
\* Push names (evt.Info.PushName) a member may send under; u1 renames.
PushNames(u) == IF u = "u1" THEN {"Ann", "Anna"} ELSE {"Bob"}
Threads == {1, 2}              \* handler goroutines alive at once
Chats   == {"g1", "g2"}        \* chats a message may come from (evt.Info.Chat)
\* GROUP_ID: unset (the default "") or the group g1.
Configs == {[GroupID |-> ""], [GroupID |-> "g1"]}
Zones   == {0, 1}              \* UTC offsets (in ticks) the process may run in

VARIABLES
    store,      \* table user_reports: user_id -> row, or NoRow
    clock,      \* the wall clock: the instant time.Now() returns
    zone,       \* UTC offset of time.Local in the running process
    g,          \* per goroutine: where it is in Execute, and its locals
    calls,      \* inbound messages handled so far
    accepted,   \* history: accepted[u][d] = accepted-message returns for u
                \* whose `now` fell on calendar day d
    cfg         \* config.Load(): the configuration the process started with

vars == <<store, clock, zone, g, calls, accepted, cfg>>

\* ------------------------------------------------------------------ time.Time
\* t.Year(), t.Month(), t.Day(): the calendar day of t in t's own Location.
DayOf(t) == (t.inst + t.off) \div TicksPerDay

\* time.Date(y, m, d, 0, 0, 0, 0, loc): midnight of calendar day d in loc.
Date(day, off) == [inst |-> day * TicksPerDay - off, frac |-> 0, off |-> off]

\* t.Equal(u): the same instant, whatever the Locations.
TimeEqual(t, u) == t.inst = u.inst /\ t.frac = u.frac

\* t.AddDate(0, 0, days): the same wall-clock time `days` calendar days
\* later, in t's Location (a fixed offset).
AddDate(t, days) == [t EXCEPT !.inst = @ + days * TicksPerDay]

\* time.Now(): the wall clock in time.Local.  A reading carries a non-zero
\* sub-second remainder (nanoseconds), which only the text form loses.
TimeNow == [inst |-> clock, frac |-> 1, off |-> zone]

\* t.Format(time.RFC3339): wall-clock date, wall-clock time to the second,
\* and the offset; the sub-second remainder is not written.
FormatRFC3339(t) ==
    [date |-> DayOf(t), hms |-> (t.inst + t.off) % TicksPerDay, off |-> t.off]

\* time.Parse(time.RFC3339, s): the instant the text denotes, in a Location
\* with the offset the text names.
ParseRFC3339(s) ==
    [inst |-> s.date * TicksPerDay + s.hms - s.off, frac |-> 0, off |-> s.off]

\* ------------------------------------------------------------------ domain
Nil   == [nil |-> TRUE]          \* a nil *domain.Report
NoRow == [row |-> FALSE]         \* no row for the user_id

\* domain.Report
Report(u, n, s, c, l) ==
    [UserID |-> u, Name |-> n, Streak |-> s, ActivityCount |-> c,
     LastReportDate |-> l]

\* Variant: the query without its WHERE clause, returning the first row.
GetReportFirst(u) ==
    IF \A v \in Users : store[v] = NoRow THEN Nil
    ELSE LET v == CHOOSE w \in Users : store[w] # NoRow
         IN  Report(v, store[v].name, store[v].streak,
                    store[v].activity_count,
                    ParseRFC3339(store[v].last_report_date))

\* Variant: sql.ErrNoRows not told apart, the zero Report returned.
GetReportZero(u) ==
    IF store[u] = NoRow
    THEN Report("", "", 0, 0, [inst |-> 0, frac |-> 0, off |-> 0])
    ELSE Report(u, store[u].name, store[u].streak, store[u].activity_count,
                ParseRFC3339(store[u].last_report_date))

\* ------------------------------------------------------------------ sqlite
\* ReportRepository.GetReport: sql.ErrNoRows -> nil, else the scanned row.
GetReport(u) ==
    IF store[u] = NoRow THEN Nil
    ELSE Report(u, store[u].name, store[u].streak, store[u].activity_count,
                ParseRFC3339(store[u].last_report_date))

\* Variant: the table replaced by the one row written.
UpsertReportClobber(r) ==
    [u \in Users |->
        IF u = r.UserID
        THEN [row |-> TRUE, name |-> r.Name, streak |-> r.Streak,
              activity_count |-> r.ActivityCount,
              last_report_date |-> FormatRFC3339(r.LastReportDate)]
        ELSE NoRow]

\* Variant: INSERT without the ON CONFLICT clause taking effect (an
\* existing row is kept).
UpsertReportInsertOnly(r) ==
    IF store[r.UserID] # NoRow THEN store
    ELSE [store EXCEPT ![r.UserID] =
            [row |-> TRUE, name |-> r.Name, streak |-> r.Streak,
             activity_count |-> r.ActivityCount,
             last_report_date |-> FormatRFC3339(r.LastReportDate)]]

\* ReportRepository.UpsertReport: INSERT ... ON CONFLICT(user_id) DO UPDATE.
UpsertReport(r) ==
    [store EXCEPT ![r.UserID] =
        [row |-> TRUE, name |-> r.Name, streak |-> r.Streak,
         activity_count |-> r.ActivityCount,
         last_report_date |-> FormatRFC3339(r.LastReportDate)]]

\* The injective sequences over S that list all of S.
Orders(S) ==
    {p \in [1 .. Cardinality(S) -> S] :
        \A i, j \in 1 .. Cardinality(S) : i # j => p[i] # p[j]}

\* ReportRepository.GetAllReports: SELECT ... ORDER BY streak DESC.  Every
\* row once, parsed as in GetReport; rows of equal streak in any order.
GetAllReports ==
    {[i \in DOMAIN p |-> GetReport(p[i])] :
        p \in {q \in Orders({u \in Users : store[u] # NoRow}) :
                 \A i, j \in DOMAIN q :
                     i < j => store[q[i]].streak >= store[q[j]].streak}}

\* ------------------------------------------------------------------ usecase
\* time.Date(t.Year(), t.Month(), t.Day(), 0, 0, 0, 0, t.Location())
\* GetAllReports of the in-memory repository the use case tests run on:
\* the values of a Go map, in the order the iteration happens to take.
MockGetAllReports ==
    {[i \in DOMAIN p |-> GetReport(p[i])] :
        p \in Orders({u \in Users : store[u] # NoRow})}

Midnight(t) == Date(DayOf(t), t.off)

\* Variant: the stored timestamp compared without zeroing its time of day.
IsTodayRaw(last, now) == TimeEqual(last, Midnight(now))

\* Variant: a stored day later than today taken as today.
IsTodayOrLater(last, now) == Midnight(last).inst >= Midnight(now).inst

\* lastReportDate.Equal(today)
IsToday(last, now) == TimeEqual(Midnight(last), Midnight(now))

\* Variant: "yesterday" taken as 24 hours before now, not as a calendar day.
IsYesterdayRaw(last, now) ==
    TimeEqual(Midnight(last), AddDate(now, -1))

\* lastReportDate.Equal(yesterday), yesterday := today.AddDate(0, 0, -1)
IsYesterday(last, now) == TimeEqual(Midnight(last), AddDate(Midnight(now), -1))

\* Variant: a gap leaves the streak as it was instead of resetting it.
NextStreakNoReset(report, now) ==
    IF IsYesterday(report.LastReportDate, now)
    THEN report.Streak + 1 ELSE report.Streak

\* Variant: the streak is reset on every accepted report.
NextStreakAlwaysReset(report, now) == 1

\* The streak after an accepted report on top of `report`
\* (report.Streak++ / report.Streak = 1).
NextStreak(report, now) ==
    IF IsYesterday(report.LastReportDate, now) THEN report.Streak + 1 ELSE 1

\* Variant: the new record's ActivityCount left at its zero value.
NextReportZeroCount(report, u, n, now) ==
    IF report # Nil
    THEN Report(report.UserID, n, NextStreak(report, now),
                report.ActivityCount + 1, now)
    ELSE Report(u, n, 1, 0, now)

\* Variant: report.ActivityCount++ left out.
NextReportNoIncrement(report, u, n, now) ==
    IF report # Nil
    THEN Report(report.UserID, n, NextStreak(report, now),
                report.ActivityCount, now)
    ELSE Report(u, n, 1, 1, now)

\* Variant: the new record's Streak left at its zero value.
NextReportZeroStreak(report, u, n, now) ==
    IF report # Nil
    THEN Report(report.UserID, n, NextStreak(report, now),
                report.ActivityCount + 1, now)
    ELSE Report(u, n, 0, 1, now)

\* The record Execute hands to UpsertReport.
NextReport(report, u, n, now) ==
    IF report # Nil
    THEN Report(report.UserID, n, NextStreak(report, now),
                report.ActivityCount + 1, now)
    ELSE Report(u, n, 1, 1, now)

\* "Laporan diterima, %s sudah berkeringat %d hari. Lanjutkan"
AcceptedMsg(n, c) == [msg |-> "diterima", name |-> n, count |-> c]
\* "%s sudah laporan hari ini, ayo jangan curang!"
RejectedMsg(n) == [msg |-> "sudah laporan", name |-> n, count |-> 0]
NoMsg == [msg |-> "", name |-> "", count |-> 0]

\* ------------------------------------------------------------------ leaderboard
Range(seq) == {seq[i] : i \in DOMAIN seq}

\* Variant: active up to two calendar days after the last report.
KeepsStreakTwoDays(r, now) ==
    \/ IsToday(r.LastReportDate, now)
    \/ IsYesterday(r.LastReportDate, now)
    \/ IsYesterday(r.LastReportDate, AddDate(now, -1))

\* Variant: active only when the last report is of today.
KeepsStreakTodayOnly(r, now) == IsToday(r.LastReportDate, now)

\* lastReportDate.Equal(today) || lastReportDate.Equal(yesterday)
KeepsStreak(r, now) ==
    IsToday(r.LastReportDate, now) \/ IsYesterday(r.LastReportDate, now)

\* The loop over reports: keepStreak / loseStreak, in the order read.
KeepStreak(reports, now) == SelectSeq(reports, LAMBDA r : KeepsStreak(r, now))
\* Variant: the lost section taking every record not of today.
LoseStreakNotToday(reports, now) ==
    SelectSeq(reports, LAMBDA r : ~IsToday(r.LastReportDate, now))

LoseStreak(reports, now) == SelectSeq(reports, LAMBDA r : ~KeepsStreak(r, now))

\* Variant: no sort, the section stays in the order read.
SortSliceNone(seq) == {seq}

\* sort.Slice(x, func(i, j) bool { return x[i].Streak > x[j].Streak }):
\* the same elements by streak descending; not stable, so equal streaks
\* come out in any order.
SortSliceByStreak(seq) ==
    {p \in Orders(Range(seq)) :
        \A i, j \in DOMAIN p : i < j => p[i].Streak >= p[j].Streak}

\* Variant: the largest Streak read.
RECURSIVE MaxDayByStreak(_)
MaxDayByStreak(reports) ==
    IF reports = <<>> THEN 0
    ELSE LET m == MaxDayByStreak(Tail(reports))
         IN  IF Head(reports).Streak > m THEN Head(reports).Streak ELSE m

\* Variant: maxDay starting from 1.
RECURSIVE MaxDayFromOne(_)
MaxDayFromOne(reports) ==
    IF reports = <<>> THEN 1
    ELSE LET m == MaxDayFromOne(Tail(reports))
         IN  IF Head(reports).ActivityCount > m
             THEN Head(reports).ActivityCount ELSE m

\* maxDay: the largest ActivityCount read, 0 for no reports.
RECURSIVE MaxDay(_)
MaxDay(reports) ==
    IF reports = <<>> THEN 0
    ELSE LET m == MaxDay(Tail(reports))
         IN  IF Head(reports).ActivityCount > m
             THEN Head(reports).ActivityCount ELSE m

\* Variant: the rank starting again at 1 in the lost section.
RenderRankRestarts(keepStreak, loseStreak, maxDay, now) ==
    [msg       |-> "30 Days of Sweat Challenge",
     title_day |-> maxDay,
     date      |-> DayOf(now),
     recap_day |-> maxDay,
     keep      |-> Len(keepStreak),
     lose      |-> Len(loseStreak),
     lines     |->
        [i \in 1 .. (Len(keepStreak) + Len(loseStreak)) |->
            IF i <= Len(keepStreak)
            THEN [rank |-> i, name |-> keepStreak[i].Name,
                  n |-> keepStreak[i].Streak, line |-> "days streak"]
            ELSE [rank |-> i - Len(keepStreak),
                  name |-> loseStreak[i - Len(keepStreak)].Name,
                  n |-> loseStreak[i - Len(keepStreak)].ActivityCount,
                  line |-> "Day"]]]

\* Variant: the lost line printing the streak.
RenderLostStreak(keepStreak, loseStreak, maxDay, now) ==
    [msg       |-> "30 Days of Sweat Challenge",
     title_day |-> maxDay,
     date      |-> DayOf(now),
     recap_day |-> maxDay,
     keep      |-> Len(keepStreak),
     lose      |-> Len(loseStreak),
     lines     |->
        [i \in 1 .. (Len(keepStreak) + Len(loseStreak)) |->
            IF i <= Len(keepStreak)
            THEN [rank |-> i, name |-> keepStreak[i].Name,
                  n |-> keepStreak[i].Streak, line |-> "days streak"]
            ELSE [rank |-> i, name |-> loseStreak[i - Len(keepStreak)].Name,
                  n |-> loseStreak[i - Len(keepStreak)].Streak,
                  line |-> "Day"]]]

\* The text written to the strings.Builder, field by field; one rank line
\* per member, rank counting on from the active into the lost section.
Render(keepStreak, loseStreak, maxDay, now) ==
    [msg       |-> "30 Days of Sweat Challenge",
     title_day |-> maxDay,
     date      |-> DayOf(now),
     recap_day |-> maxDay,
     keep      |-> Len(keepStreak),
     lose      |-> Len(loseStreak),
     lines     |->
        [i \in 1 .. (Len(keepStreak) + Len(loseStreak)) |->
            IF i <= Len(keepStreak)
            THEN [rank |-> i, name |-> keepStreak[i].Name,
                  n |-> keepStreak[i].Streak, line |-> "days streak"]
            ELSE [rank |-> i, name |-> loseStreak[i - Len(keepStreak)].Name,
                  n |-> loseStreak[i - Len(keepStreak)].ActivityCount,
                  line |-> "Day"]]]

\* ------------------------------------------------------------------ router
\* A message text is a sequence of characters.
Whitespace == {" ", "\t", "\n"}

\* The texts members send: a command or something like one, behind leading
\* whitespace and before trailing text.
TextHeads == {<<>>,
              <<" ">>,
              <<"\t">>,
              <<"\n", " ">>}
TextCores == {<<"#", "l", "a", "p", "o", "r">>,
              <<"#", "L", "A", "P", "O", "R">>,
              <<"#", "L", "a", "P", "o", "r">>,
              <<"l", "a", "p", "o", "r">>,
              <<"#", "l", "a", "p", "o">>,
              <<"#", " ", "l", "a", "p", "o", "r">>,
              <<"#", "l", "e", "a", "d", "e", "r", "b", "o", "a", "r", "d">>,
              <<"#", "L", "E", "A", "D", "E", "R", "B", "O", "A", "R", "D">>,
              <<"#", "L", "e", "a", "d", "e", "r", "B", "o", "a", "r", "d">>,
              <<"l", "e", "a", "d", "e", "r", "b", "o", "a", "r", "d">>,
              <<"#", "l", "e", "a", "d", "e", "r">>,
              <<>>,
              <<"h", "e", "l", "l", "o">>,
              <<"#", "h", "e", "l", "p">>}
TextTails == {<<>>,
              <<" ">>,
              <<" ", "l", "a", "r", "i">>,
              <<"a", "n">>}
Texts == {h \o c \o e : h \in TextHeads, c \in TextCores, e \in TextTails}

\* strings.TrimSpace
RECURSIVE TrimLeft(_)
TrimLeft(s) ==
    IF s # <<>> /\ Head(s) \in Whitespace THEN TrimLeft(Tail(s)) ELSE s
RECURSIVE TrimRight(_)
TrimRight(s) ==
    IF s # <<>> /\ s[Len(s)] \in Whitespace
    THEN TrimRight(SubSeq(s, 1, Len(s) - 1)) ELSE s
TrimSpace(s) == TrimRight(TrimLeft(s))

\* strings.ToLower, on the letters of the two commands
ToLowerChar(c) ==
    CASE c = "A" -> "a" [] c = "B" -> "b" [] c = "D" -> "d" [] c = "E" -> "e"
      [] c = "L" -> "l" [] c = "O" -> "o" [] c = "P" -> "p" [] c = "R" -> "r"
      [] OTHER -> c
ToLower(s) == [i \in DOMAIN s |-> ToLowerChar(s[i])]

\* strings.HasPrefix
HasPrefix(s, prefix) ==
    Len(s) >= Len(prefix) /\ SubSeq(s, 1, Len(prefix)) = prefix

CmdLapor == <<"#", "l", "a", "p", "o", "r">>
CmdLeaderboard == <<"#", "l", "e", "a", "d", "e", "r", "b", "o", "a", "r", "d">>

\* Variant: the command matched without case folding.
RouteNoFold(text) ==
    LET cmd == TrimSpace(text)
    IN  IF HasPrefix(cmd, CmdLapor) THEN "lapor"
        ELSE IF HasPrefix(cmd, CmdLeaderboard) THEN "leaderboard"
        ELSE ""

\* Variant: the report command matched on all but its last character.
RouteShortToken(text) ==
    LET cmd == ToLower(TrimSpace(text))
    IN  IF HasPrefix(cmd, SubSeq(CmdLapor, 1, Len(CmdLapor) - 1)) THEN "lapor"
        ELSE IF HasPrefix(cmd, CmdLeaderboard) THEN "leaderboard"
        ELSE ""

\* The operation a text is routed to: the trimmed, case-folded text is
\* matched by prefix against the two commands.
Route(text) ==
    LET cmd == ToLower(TrimSpace(text))
    IN  IF HasPrefix(cmd, CmdLapor) THEN "lapor"
        ELSE IF HasPrefix(cmd, CmdLeaderboard) THEN "leaderboard"
        ELSE ""

\* ------------------------------------------------------------------ goroutines
\* Locals of a handler goroutine.  `read` keeps what GetReport returned
\* (the code overwrites `report` in place); `report` is the record handed
\* to UpsertReport.
Idle == [pc |-> "idle", user |-> "", name |-> "", read |-> Nil,
         report |-> Nil, now |-> Nil, reports |-> <<>>, result |-> NoMsg,
         err |-> FALSE, text |-> Nil, chat |-> "", fromMe |-> FALSE]

Days == 0 .. ((MaxClock + 1) \div TicksPerDay)

Init ==
    /\ store = [u \in Users |-> NoRow]
    /\ clock = 0
    /\ zone \in Zones
    /\ g = [t \in Threads |-> Idle]
    /\ calls = 0
    /\ accepted = [u \in Users |-> [d \in Days |-> 0]]
    /\ cfg = [GroupID |-> ""]

\* A #lapor message of user u with push name n arrives; the transport
\* starts goroutine t (the first free slot), which enters Execute and reads
\* u's report.
ReportGet(t, u, n) ==
    /\ g[t].pc = "idle"
    /\ \A s \in Threads : s < t => g[s].pc # "idle"
    /\ calls < MaxCalls
    /\ calls' = calls + 1
    /\ g' = [g EXCEPT ![t] = [Idle EXCEPT !.pc = "now", !.user = u,
                                           !.name = n, !.read = GetReport(u)]]
    /\ UNCHANGED <<cfg, store, clock, zone, accepted>>

\* Variant: the rejected path storing the new push name.
ReportNowRejectWrites(t) ==
    /\ g[t].pc = "now"
    /\ LET now == TimeNow
           r   == g[t].read
       IN  IF r # Nil /\ IsToday(r.LastReportDate, now)
           THEN /\ g' = [g EXCEPT ![t] = [Idle EXCEPT !.pc = "done",
                                   !.user = g[t].user,
                                   !.result = RejectedMsg(g[t].name)]]
                /\ store' = UpsertReport([r EXCEPT !.Name = g[t].name])
           ELSE /\ g' = [g EXCEPT ![t].pc = "upsert", ![t].now = now,
                               ![t].report =
                                   NextReport(r, g[t].user, g[t].name, now)]
                /\ store' = store
    /\ UNCHANGED <<clock, zone, calls, accepted, cfg>>

\* now := time.Now(); same day -> return the rejection; else build the
\* record to write.
ReportNow(t) ==
    /\ g[t].pc = "now"
    /\ LET now == TimeNow
           r   == g[t].read
       IN  IF r # Nil /\ IsToday(r.LastReportDate, now)
           THEN g' = [g EXCEPT ![t] = [Idle EXCEPT !.pc = "done",
                                   !.user = g[t].user,
                                   !.result = RejectedMsg(g[t].name)]]
           ELSE g' = [g EXCEPT ![t].pc = "upsert", ![t].now = now,
                               ![t].report =
                                   NextReport(r, g[t].user, g[t].name, now)]
    /\ UNCHANGED <<cfg, store, clock, zone, calls, accepted>>

\* Variant: the accepted message printing the streak.
ReportUpsertPrintsStreak(t) ==
    /\ g[t].pc = "upsert"
    /\ store' = UpsertReport(g[t].report)
    /\ g' = [g EXCEPT ![t] = [Idle EXCEPT !.pc = "done",
                          !.user = g[t].user,
                          !.result = AcceptedMsg(g[t].name,
                                                 g[t].report.Streak)]]
    /\ accepted' = [accepted EXCEPT ![g[t].user][DayOf(g[t].now)] = @ + 1]
    /\ UNCHANGED <<cfg, clock, zone, calls>>

\* uc.repo.UpsertReport(ctx, report), then return the accepted message.
ReportUpsert(t) ==
    /\ g[t].pc = "upsert"
    /\ store' = UpsertReport(g[t].report)
    /\ g' = [g EXCEPT ![t] = [Idle EXCEPT !.pc = "done",
                          !.user = g[t].user,
                          !.result = AcceptedMsg(g[t].name,
                                                 g[t].report.ActivityCount)]]
    /\ accepted' = [accepted EXCEPT ![g[t].user][DayOf(g[t].now)] = @ + 1]
    /\ UNCHANGED <<cfg, clock, zone, calls>>

\* uc.repo.GetReport fails (the query or time.Parse returns an error):
\* Execute returns "", err at once.
ReportGetFails(t, u, n) ==
    /\ g[t].pc = "idle"
    /\ \A s \in Threads : s < t => g[s].pc # "idle"
    /\ calls < MaxCalls
    /\ calls' = calls + 1
    /\ g' = [g EXCEPT ![t] = [Idle EXCEPT !.pc = "done", !.user = u,
                                           !.name = n, !.err = TRUE]]
    /\ UNCHANGED <<cfg, store, clock, zone, accepted>>

\* Variant: the error of UpsertReport dropped, the accepted message returned.
ReportUpsertFailsIgnored(t) ==
    /\ g[t].pc = "upsert"
    /\ g' = [g EXCEPT ![t].pc = "done",
                      ![t].result = AcceptedMsg(g[t].name,
                                                g[t].report.ActivityCount)]
    /\ UNCHANGED <<cfg, store, clock, zone, calls, accepted>>

\* uc.repo.UpsertReport fails: the statement writes nothing, Execute
\* returns "", err.
ReportUpsertFails(t) ==
    /\ g[t].pc = "upsert"
    /\ g' = [g EXCEPT ![t].pc = "done", ![t].result = NoMsg,
                      ![t].err = TRUE]
    /\ UNCHANGED <<cfg, store, clock, zone, calls, accepted>>

\* A #leaderboard message arrives; goroutine t enters
\* GetLeaderboardUsecase.Execute and reads all reports.
LeaderboardGet(t, reports) ==
    /\ g[t].pc = "idle"
    /\ \A s \in Threads : s < t => g[s].pc # "idle"
    /\ calls < MaxCalls
    /\ calls' = calls + 1
    /\ g' = [g EXCEPT ![t] = [Idle EXCEPT !.pc = "board",
                                           !.reports = reports]]
    /\ UNCHANGED <<cfg, store, clock, zone, accepted>>

\* Variant: the leaderboard writing streak 1 back to every lost member.
LeaderboardNowResets(t) ==
    /\ g[t].pc = "board"
    /\ LET now == TimeNow
           reports == g[t].reports
       IN  /\ \E keepStreak \in SortSliceByStreak(KeepStreak(reports, now)),
                 loseStreak \in SortSliceByStreak(LoseStreak(reports, now)) :
                  g' = [g EXCEPT ![t] = [Idle EXCEPT !.pc = "done", !.result =
                        Render(keepStreak, loseStreak, MaxDay(reports), now)]]
           /\ store' = [u \in Users |->
                  IF store[u] # NoRow /\ ~KeepsStreak(GetReport(u), now)
                  THEN [store[u] EXCEPT !.streak = 1] ELSE store[u]]
    /\ UNCHANGED <<cfg, clock, zone, calls, accepted>>

\* Variant: the sections taken from the rows read, the numbers on the
\* lines from the rows as they are now.
LeaderboardNowRereads(t) ==
    /\ g[t].pc = "board"
    /\ LET now == TimeNow
           reports == g[t].reports
           fresh(seq) == [i \in DOMAIN seq |->
                            [seq[i] EXCEPT
                               !.Streak = store[seq[i].UserID].streak,
                               !.ActivityCount =
                                   store[seq[i].UserID].activity_count]]
       IN  \E keepStreak \in SortSliceByStreak(KeepStreak(reports, now)),
              loseStreak \in SortSliceByStreak(LoseStreak(reports, now)) :
               g' = [g EXCEPT ![t] = [Idle EXCEPT !.pc = "done", !.result =
                        Render(fresh(keepStreak), fresh(loseStreak),
                               MaxDay(reports), now)]]
    /\ UNCHANGED <<store, clock, zone, calls, accepted, cfg>>

\* now := time.Now(); partition, sort both sections, render, return.
LeaderboardNow(t) ==
    /\ g[t].pc = "board"
    /\ LET now == TimeNow
           reports == g[t].reports
       IN  \E keepStreak \in SortSliceByStreak(KeepStreak(reports, now)),
              loseStreak \in SortSliceByStreak(LoseStreak(reports, now)) :
               g' = [g EXCEPT ![t] = [Idle EXCEPT !.pc = "done", !.result =
                        Render(keepStreak, loseStreak, MaxDay(reports), now)]]
    /\ UNCHANGED <<cfg, store, clock, zone, calls, accepted>>

\* Variant: a #leaderboard text entering the report use case as well.
HandleMessageBoth(t, u, n, text) ==
    /\ g[t].pc = "idle"
    /\ \A s \in Threads : s < t => g[s].pc # "idle"
    /\ calls < MaxCalls
    /\ calls' = calls + 1
    /\ \/ /\ Route(text) # ""
          /\ g' = [g EXCEPT ![t] = [Idle EXCEPT !.pc = "now", !.user = u,
                       !.name = n, !.read = GetReport(u),
                       !.text = [s |-> text]]]
       \/ /\ Route(text) = ""
          /\ g' = [g EXCEPT ![t] = [Idle EXCEPT !.pc = "done",
                                                !.text = [s |-> text]]]
    /\ UNCHANGED <<cfg, store, clock, zone, accepted>>

\* HandleMessageUsecase.Execute(ctx, userID, name, text): route the text,
\* enter the use case it names (up to its first repository call), or
\* return "" for a text that names none.
HandleMessage(t, u, n, text) ==
    /\ g[t].pc = "idle"
    /\ \A s \in Threads : s < t => g[s].pc # "idle"
    /\ calls < MaxCalls
    /\ calls' = calls + 1
    /\ \/ /\ Route(text) = "lapor"
          /\ g' = [g EXCEPT ![t] = [Idle EXCEPT !.pc = "now", !.user = u,
                       !.name = n, !.read = GetReport(u),
                       !.text = [s |-> text]]]
       \/ /\ Route(text) = "leaderboard"
          /\ \E reports \in GetAllReports :
                g' = [g EXCEPT ![t] = [Idle EXCEPT !.pc = "board",
                         !.reports = reports, !.text = [s |-> text]]]
       \/ /\ Route(text) = ""
          /\ g' = [g EXCEPT ![t] = [Idle EXCEPT !.pc = "done",
                                                !.text = [s |-> text]]]
    /\ UNCHANGED <<cfg, store, clock, zone, accepted>>

\* Variant: the reply sent whatever Execute returned.
ReplyAlways(t) ==
    /\ g[t].pc = "done"
    /\ g' = [g EXCEPT ![t].pc = "sent"]
    /\ UNCHANGED <<store, clock, zone, calls, accepted, cfg>>

\* The message handler of main, up to the first repository call: drop the
\* message of another chat (when GROUP_ID is set), of the bot itself, or
\* without text; else hand (userID, pushName, msg) to
\* handleMessageUC.Execute.
Handler(t, chat, fromMe, u, n, text) ==
    /\ g[t].pc = "idle"
    /\ \A s \in Threads : s < t => g[s].pc # "idle"
    /\ calls < MaxCalls
    /\ calls' = calls + 1
    /\ LET base == [Idle EXCEPT !.chat = chat, !.fromMe = fromMe]
       IN  IF \/ cfg.GroupID # "" /\ chat # cfg.GroupID
              \/ fromMe
              \/ text = <<>>
           THEN g' = [g EXCEPT ![t] = [base EXCEPT !.pc = "end"]]
           ELSE \/ /\ Route(text) = "lapor"
                   /\ g' = [g EXCEPT ![t] = [base EXCEPT !.pc = "now",
                                !.user = u, !.name = n,
                                !.read = GetReport(u),
                                !.text = [s |-> text]]]
                \/ /\ Route(text) = "leaderboard"
                   /\ \E reports \in GetAllReports :
                         g' = [g EXCEPT ![t] = [base EXCEPT !.pc = "board",
                                  !.reports = reports,
                                  !.text = [s |-> text]]]
                \/ /\ Route(text) = ""
                   /\ g' = [g EXCEPT ![t] = [base EXCEPT !.pc = "done",
                                                !.text = [s |-> text]]]
    /\ UNCHANGED <<store, clock, zone, accepted, cfg>>

\* After Execute: an error is logged, an empty response dropped, any other
\* response sent to the chat (SendMessage).
Reply(t) ==
    /\ g[t].pc = "done"
    /\ g' = [g EXCEPT ![t].pc =
                IF ~g[t].err /\ g[t].result # NoMsg THEN "sent" ELSE "end"]
    /\ UNCHANGED <<store, clock, zone, calls, accepted, cfg>>

\* The handler returns; the goroutine ends.
End(t) ==
    /\ g[t].pc \in {"sent", "end"}
    /\ g' = [g EXCEPT ![t] = Idle]
    /\ UNCHANGED <<store, clock, zone, calls, accepted, cfg>>

\* uc.repo.GetAllReports fails: Execute returns "", err.
LeaderboardGetFails(t) ==
    /\ g[t].pc = "idle"
    /\ \A s \in Threads : s < t => g[s].pc # "idle"
    /\ calls < MaxCalls
    /\ calls' = calls + 1
    /\ g' = [g EXCEPT ![t] = [Idle EXCEPT !.pc = "done", !.err = TRUE]]
    /\ UNCHANGED <<cfg, store, clock, zone, accepted>>

\* The handler has replied (or logged the error); the goroutine ends.
Return(t) ==
    /\ g[t].pc = "done"
    /\ g' = [g EXCEPT ![t] = Idle]
    /\ UNCHANGED <<cfg, store, clock, zone, calls, accepted>>

\* Time passes.
Tick ==
    /\ clock < MaxClock
    /\ clock' = clock + 1
    /\ UNCHANGED <<cfg, store, zone, g, calls, accepted>>

Next ==
    \/ \E t \in Threads, u \in Users : \E n \in PushNames(u) : ReportGet(t, u, n)
    \/ \E t \in Threads : ReportNow(t)
    \/ \E t \in Threads : ReportUpsert(t)
    \/ \E t \in Threads : \E reports \in GetAllReports :
           LeaderboardGet(t, reports)
    \/ \E t \in Threads : LeaderboardNow(t)
    \/ \E t \in Threads : Return(t)
    \/ Tick

Spec == Init /\ [][Next]_vars

\* Messages handled one at a time: a goroutine starts only when none is
\* running.
SeqNext ==
    \/ \E u \in Users : \E n \in PushNames(u) : ReportGet(1, u, n)
    \/ ReportNow(1)
    \/ ReportUpsert(1)
    \/ \E reports \in GetAllReports : LeaderboardGet(1, reports)
    \/ LeaderboardNow(1)
    \/ Return(1)
    \/ Tick

SpecSeq == Init /\ [][SeqNext]_vars

\* The leaderboard use case on its own: any table the report use case can
\* have built by instant `clock` (streak at least 1, count at least
\* streak, last report not in the future, written in the process's zone),
\* read through a repository that returns the rows in any order.
Rows(u, c, z) ==
    {[row |-> TRUE, name |-> n, streak |-> k, activity_count |-> a,
      last_report_date |-> FormatRFC3339([inst |-> i, frac |-> 0, off |-> z])] :
        n \in PushNames(u), k \in 1 .. MaxStreak,
        a \in 1 .. (MaxStreak + 1), i \in 0 .. c}

InitBoard ==
    /\ clock \in 0 .. MaxClock
    /\ zone \in Zones
    /\ store \in [Users -> UNION {Rows(u, clock, zone) : u \in Users}
                              \cup {NoRow}]
    /\ \A u \in Users :
          store[u] # NoRow => /\ store[u] \in Rows(u, clock, zone)
                              /\ store[u].activity_count >= store[u].streak
    /\ g = [t \in Threads |-> Idle]
    /\ calls = MaxCalls - 1
    /\ accepted = [u \in Users |-> [d \in Days |-> 0]]
    /\ cfg = [GroupID |-> ""]

BoardNext ==
    \/ \E reports \in MockGetAllReports : LeaderboardGet(1, reports)
    \/ LeaderboardGetFails(1)
    \/ LeaderboardNow(1)
    \/ Return(1)

SpecBoard == InitBoard /\ [][BoardNext]_vars

\* The leaderboard over the same tables, read through the SQLite
\* repository.
RepoNext ==
    \/ \E reports \in GetAllReports : LeaderboardGet(1, reports)
    \/ LeaderboardGetFails(1)
    \/ LeaderboardNow(1)
    \/ Return(1)

SpecRepo == InitBoard /\ [][RepoNext]_vars

\* Messages of any text, handled one at a time through the router, within
\* one instant.
RouterNext ==
    \/ \E u \in Users : \E n \in PushNames(u) : \E text \in Texts :
          HandleMessage(1, u, n, text)
    \/ ReportNow(1)
    \/ ReportUpsert(1)
    \/ LeaderboardNow(1)
    \/ Return(1)

SpecRouter == Init /\ [][RouterNext]_vars

\* The process is stopped and started again under another time zone (TZ of
\* the container changed); the table, written under the old one, stays.
ZoneChange ==
    /\ \A t \in Threads : g[t].pc = "idle"
    /\ zone' \in Zones \ {zone}
    /\ UNCHANGED <<store, clock, g, calls, accepted, cfg>>

\* Messages handled one at a time, the zone changing between them.
ZoneNext ==
    \/ \E u \in Users : \E n \in PushNames(u) : ReportGet(1, u, n)
    \/ ReportNow(1)
    \/ ReportUpsert(1)
    \/ \E reports \in GetAllReports : LeaderboardGet(1, reports)
    \/ LeaderboardNow(1)
    \/ Return(1)
    \/ Tick
    \/ ZoneChange

SpecZone == Init /\ [][ZoneNext]_vars

\* The wall clock is set back (an NTP step or an operator's correction).
ClockBack ==
    /\ clock > 0
    /\ clock' = clock - 1
    /\ UNCHANGED <<cfg, store, zone, g, calls, accepted>>

\* Messages handled one at a time under a clock that may also go backwards.
BackNext ==
    \/ \E u \in Users : \E n \in PushNames(u) : ReportGet(1, u, n)
    \/ ReportNow(1)
    \/ ReportUpsert(1)
    \/ \E reports \in GetAllReports : LeaderboardGet(1, reports)
    \/ LeaderboardNow(1)
    \/ Return(1)
    \/ Tick
    \/ ClockBack

SpecBack == Init /\ [][BackNext]_vars

\* Concurrent goroutines whose report invocations in flight are all of
\* distinct members: a #lapor of u starts only while no other invocation
\* for u is between its read and its write.
ReportGetDistinct(t, u, n) ==
    /\ \A s \in Threads : g[s].pc \in {"now", "upsert"} => g[s].user # u
    /\ ReportGet(t, u, n)

DistinctNext ==
    \/ \E t \in Threads, u \in Users : \E n \in PushNames(u) :
          ReportGetDistinct(t, u, n)
    \/ \E t \in Threads : ReportNow(t)
    \/ \E t \in Threads : ReportUpsert(t)
    \/ \E t \in Threads : \E reports \in GetAllReports :
          LeaderboardGet(t, reports)
    \/ \E t \in Threads : LeaderboardNow(t)
    \/ \E t \in Threads : Return(t)
    \/ Tick

SpecDistinct == Init /\ [][DistinctNext]_vars

\* The whole handler of main, one message at a time within one instant:
\* any chat, any sender, under either configuration; UpsertReport may fail.
MainTexts == {<<>>, CmdLapor, CmdLeaderboard, <<"h", "e", "l", "l", "o">>}

InitMain ==
    /\ store = [u \in Users |-> NoRow]
    /\ clock = 0
    /\ zone \in Zones
    /\ g = [t \in Threads |-> Idle]
    /\ calls = 0
    /\ accepted = [u \in Users |-> [d \in Days |-> 0]]
    /\ cfg \in Configs

MainNext ==
    \/ \E chat \in Chats, fromMe \in BOOLEAN, u \in Users :
          \E n \in PushNames(u) : \E text \in MainTexts :
             Handler(1, chat, fromMe, u, n, text)
    \/ ReportNow(1)
    \/ ReportUpsert(1)
    \/ ReportUpsertFails(1)
    \/ LeaderboardNow(1)
    \/ Reply(1)
    \/ End(1)

SpecMain == InitMain /\ [][MainNext]_vars

\* Messages handled one at a time by a repository whose calls may fail.
ErrNext ==
    \/ \E u \in Users : \E n \in PushNames(u) : ReportGet(1, u, n)
    \/ \E u \in Users : \E n \in PushNames(u) : ReportGetFails(1, u, n)
    \/ ReportNow(1)
    \/ ReportUpsert(1)
    \/ ReportUpsertFails(1)
    \/ \E reports \in GetAllReports : LeaderboardGet(1, reports)
    \/ LeaderboardGetFails(1)
    \/ LeaderboardNow(1)
    \/ Return(1)
    \/ Tick

SpecErr == Init /\ [][ErrNext]_vars

\* ------------------------------------------------------------------ history
HasRow(u) == store[u] # NoRow

RECURSIVE SumDays(_, _)
SumDays(f, d) == IF d < 0 THEN 0 ELSE f[d] + SumDays(f, d - 1)

\* Accepted-message returns of u so far.
AcceptedTotal(u) == SumDays(accepted[u], (MaxClock + 1) \div TicksPerDay)

\* Calendar days on which a report of u was accepted.
AcceptedDays(u) == {d \in Days : accepted[u][d] > 0}

LastAcceptedDay(u) ==
    CHOOSE d \in AcceptedDays(u) : \A e \in AcceptedDays(u) : e <= d

\* Length of the run of consecutive accepted days ending on the last one.
RunLength(u) ==
    CHOOSE k \in 1 .. Cardinality(Days) :
        /\ \A i \in 0 .. (k - 1) : (LastAcceptedDay(u) - i) \in AcceptedDays(u)
        /\ (LastAcceptedDay(u) - k) \notin AcceptedDays(u)

\* Goroutine t takes the step from `from` to `to`.
Steps(t, from, to) == g[t].pc = from /\ g'[t].pc = to
Leaves(t, from) == g[t].pc = from /\ g'[t].pc # from

\* ------------------------------------------------------------------ claims

\* C1: for any interleaving of concurrently handled #lapor messages, at most
\* one Execute per member per calendar day returns the accepted message.
C1_OneAcceptedPerDay ==
    \A u \in Users : \A d \in Days : accepted[u][d] <= 1

\* C2: when the report Execute read for the member was last made on the
\* same calendar day as now, Execute returns the rejection message, does
\* not reach UpsertReport, and the stored row (streak, activity count, last
\* report date, name) is unchanged.
C2_SameDayRejected ==
    [][\A t \in Threads :
         ( /\ Leaves(t, "now")
           /\ g[t].read # Nil
           /\ DayOf(g[t].read.LastReportDate) = DayOf(TimeNow) )
         => /\ g'[t].pc = "done"
            /\ g'[t].result = RejectedMsg(g[t].name)
            /\ store' = store]_vars

C2_Witness ==
    \E t \in Threads :
        /\ g[t].pc = "done"
        /\ g[t].result.msg = "sudah laporan"
        /\ HasRow(g[t].user)
        /\ store[g[t].user].name # g[t].result.name

\* C3: when Execute read no record for the member, it is never rejected;
\* it hands UpsertReport a record with Streak 1, ActivityCount 1, the
\* supplied name and LastReportDate = now, that record is what the store
\* then holds, and the accepted message with count 1 is returned.
C3_FirstReport ==
    [][\A t \in Threads :
         /\ (Leaves(t, "now") /\ g[t].read = Nil)
            => /\ g'[t].pc = "upsert"
               /\ g'[t].now = [inst |-> clock, frac |-> 1, off |-> zone]
         /\ (Steps(t, "upsert", "done") /\ g[t].read = Nil)
            => /\ g[t].report.UserID = g[t].user
               /\ g[t].report.LastReportDate = g[t].now
               /\ HasRow(g[t].user)'
               /\ store'[g[t].user].name = g[t].name
               /\ store'[g[t].user].streak = 1
               /\ store'[g[t].user].activity_count = 1
               /\ ParseRFC3339(store'[g[t].user].last_report_date).inst
                      = g[t].now.inst
               /\ ParseRFC3339(store'[g[t].user].last_report_date).off
                      = g[t].now.off
               /\ g'[t].result = [msg |-> "diterima", name |-> g[t].name,
                                  count |-> 1]]_vars

C3_Witness ==
    \E u \in Users :
        /\ HasRow(u)
        /\ store[u].streak = 1 /\ store[u].activity_count = 1
        /\ AcceptedTotal(u) = 1
        /\ \E t \in Threads : g[t].pc = "done" /\ g[t].user = u
                              /\ g[t].result.msg = "diterima"

\* C4: when the report Execute read was last made on the calendar day just
\* before today, the report is accepted and the stored streak and activity
\* count are each exactly one greater than the ones read.
C4_ConsecutiveDay ==
    [][\A t \in Threads :
         /\ ( /\ Leaves(t, "now")
              /\ g[t].read # Nil
              /\ DayOf(g[t].read.LastReportDate) = DayOf(TimeNow) - 1 )
            => g'[t].pc = "upsert"
         /\ ( /\ Steps(t, "upsert", "done")
              /\ g[t].read # Nil
              /\ DayOf(g[t].read.LastReportDate) = DayOf(g[t].now) - 1 )
            => /\ store'[g[t].user].streak = g[t].read.Streak + 1
               /\ store'[g[t].user].activity_count
                      = g[t].read.ActivityCount + 1]_vars

C4_Witness ==
    \E u \in Users : \E d \in Days :
        /\ HasRow(u)
        /\ store[u].streak = 3 /\ store[u].activity_count = 3
        /\ AcceptedDays(u) = {d, d + 1, d + 2}

\* C5: when the report Execute read was last made two or more calendar
\* days before today, the report is accepted, the stored streak becomes 1
\* and the stored activity count is the one read plus 1, whatever the
\* streak read.
C5_GapResets ==
    [][\A t \in Threads :
         /\ ( /\ Leaves(t, "now")
              /\ g[t].read # Nil
              /\ DayOf(g[t].read.LastReportDate) <= DayOf(TimeNow) - 2 )
            => g'[t].pc = "upsert"
         /\ ( /\ Steps(t, "upsert", "done")
              /\ g[t].read # Nil
              /\ DayOf(g[t].read.LastReportDate) <= DayOf(g[t].now) - 2 )
            => /\ store'[g[t].user].streak = 1
               /\ store'[g[t].user].activity_count
                      = g[t].read.ActivityCount + 1]_vars

C5_Witness ==
    \E u \in Users : \E d \in Days :
        /\ HasRow(u)
        /\ store[u].streak = 1 /\ store[u].activity_count = 3
        /\ AcceptedDays(u) = {d, d + 1, d + 3}
        /\ AcceptedTotal(u) = 3

\* C6: every stored record has activity count >= streak.
C6_CountAtLeastStreak ==
    \A u \in Users : HasRow(u) => store[u].activity_count >= store[u].streak

C6_Witness ==
    \E u \in Users :
        HasRow(u) /\ store[u].streak = 2 /\ store[u].activity_count = 3

\* C7: from one state to the next, a member's stored activity count never
\* decreases and the record is never removed.
C7_CountNeverDecreases ==
    [][\A u \in Users :
         HasRow(u) => /\ HasRow(u)'
                      /\ store'[u].activity_count
                             >= store[u].activity_count]_vars

\* C8: no update is lost: a member's stored activity count equals the
\* number of Execute invocations for the member that returned the accepted
\* message (0 when there is no record).
C8_NoLostUpdate ==
    \A u \in Users :
        AcceptedTotal(u) = IF HasRow(u) THEN store[u].activity_count ELSE 0

\* C9: with reports executed one after another, the stored streak is the
\* length of the run of consecutive calendar days with an accepted report
\* that ends on the member's most recent accepted day.
C9_StreakIsRunLength ==
    \A u \in Users :
        /\ HasRow(u) <=> AcceptedDays(u) # {}
        /\ HasRow(u) => store[u].streak = RunLength(u)

C9_Witness ==
    \E u \in Users :
        /\ HasRow(u)
        /\ store[u].streak = 2
        /\ Cardinality(AcceptedDays(u)) = 3

\* C10: every record in the store has streak >= 1 and activity count >= 1.
C10_AtLeastOne ==
    \A u \in Users :
        HasRow(u) => store[u].streak >= 1 /\ store[u].activity_count >= 1

C10_Witness ==
    \E u \in Users, v \in Users :
        /\ u # v /\ HasRow(u) /\ HasRow(v)
        /\ store[u].streak = 1 /\ store[u].activity_count = 1
        /\ store[v].streak = 2

\* C11: if GetReport fails, Execute returns the error with an empty message
\* and never reaches UpsertReport; if UpsertReport fails, Execute returns
\* the error with an empty message, never the accepted one, and the
\* member's stored record is what the invocation read.
C11_FailureWritesNothing ==
    [][\A t \in Threads :
         /\ (g[t].pc = "idle" /\ g'[t].err /\ g'[t].user # "")
            => /\ g'[t].pc = "done"
               /\ g'[t].result = NoMsg
               /\ store' = store
               /\ accepted' = accepted
         /\ (g[t].pc = "upsert" /\ g'[t].pc = "done"
                /\ store'[g[t].user] # UpsertReport(g[t].report)[g[t].user])
            => /\ g'[t].err
               /\ g'[t].result = NoMsg
               /\ (GetReport(g[t].user))' = g[t].read
               /\ accepted' = accepted
         /\ (g[t].pc = "upsert" /\ g'[t].err)
            => /\ g'[t].result = NoMsg
               /\ (GetReport(g[t].user))' = g[t].read]_vars

C11_Witness ==
    \E t \in Threads :
        /\ g[t].pc = "done" /\ g[t].err /\ g[t].read # Nil
        /\ g[t].report.ActivityCount = 2
        /\ store[g[t].user].activity_count = 1
        /\ g[t].result = NoMsg

\* A goroutine holding a rendered leaderboard, and the places of a member
\* (by the name on the line) in its two sections.
IsBoard(t) == g[t].pc = "done" /\ g[t].result.msg = "30 Days of Sweat Challenge"
ActiveAt(t, u) ==
    {i \in 1 .. g[t].result.keep : g[t].result.lines[i].name = store[u].name}
LostAt(t, u) ==
    {i \in (g[t].result.keep + 1) .. Len(g[t].result.lines) :
        g[t].result.lines[i].name = store[u].name}

\* C12: a member is in the active section exactly when the calendar day of
\* the stored lastReportDate is the printed day or the day before it, and in
\* the lost section otherwise.
C12_ActiveIffTodayOrYesterday ==
    \A t \in Threads, u \in Users :
        (IsBoard(t) /\ HasRow(u)) =>
            LET last == store[u].last_report_date.date
                today == g[t].result.date
                recent == last = today \/ last = today - 1
            IN  /\ (ActiveAt(t, u) # {}) <=> recent
                /\ (LostAt(t, u) # {}) <=> ~recent

C12_Witness ==
    \E t \in Threads, u, v \in Users :
        /\ IsBoard(t) /\ HasRow(u) /\ HasRow(v)
        /\ store[u].last_report_date.date = g[t].result.date - 1
        /\ store[v].last_report_date.date = g[t].result.date - 2
        /\ ActiveAt(t, u) # {} /\ LostAt(t, v) # {}

MemberOf(line) == CHOOSE u \in Users : HasRow(u) /\ store[u].name = line.name

\* C14: the leaderboard ranks by ActivityCount whatever the section: of two
\* lines, the one of the member with the higher stored ActivityCount comes
\* first.
C14_RanksByActivityCount ==
    \A t \in Threads :
        IsBoard(t) =>
            \A i, j \in DOMAIN g[t].result.lines :
                store[MemberOf(g[t].result.lines[i])].activity_count
                  > store[MemberOf(g[t].result.lines[j])].activity_count
                => i < j

C16_DayIsMaxCount ==
    \A t \in Threads :
        IsBoard(t) =>
            LET counts == {store[u].activity_count :
                              u \in {v \in Users : HasRow(v)}}
                r == g[t].result
            IN  /\ r.title_day = r.recap_day
                /\ counts = {} => r.title_day = 0
                /\ counts # {} => /\ r.title_day \in counts
                                  /\ \A c \in counts : c <= r.title_day

C16_Witness ==
    \E t \in Threads, u, v \in Users :
        /\ IsBoard(t) /\ HasRow(u) /\ HasRow(v)
        /\ LostAt(t, u) # {} /\ ActiveAt(t, v) # {}
        /\ store[u].activity_count > store[v].activity_count
        /\ store[u].streak < store[v].streak
        /\ g[t].result.title_day = store[u].activity_count

C18_LeaderboardReadOnly ==
    [][\A t \in Threads :
         (Steps(t, "idle", "board") \/ Steps(t, "board", "done"))
            => store' = store /\ accepted' = accepted]_vars

C18_Witness ==
    \E t \in Threads, u \in Users :
        /\ IsBoard(t) /\ HasRow(u) /\ LostAt(t, u) # {}
        /\ store[u].streak = 2

\* C19: if GetAllReports fails, Execute returns the error and the empty
\* string; with no stored record it returns no error and the whole message
\* with day 0, 0 active, 0 lost and no rank line.
C19_FailureAndEmptyBoard ==
    [][\A t \in Threads :
         /\ (Steps(t, "idle", "done") /\ g'[t].user = "")
            => g'[t].err /\ g'[t].result = NoMsg /\ store' = store
         /\ (Steps(t, "board", "done") /\ \A u \in Users : ~HasRow(u))
            => /\ ~g'[t].err
               /\ g'[t].result =
                     [msg |-> "30 Days of Sweat Challenge", title_day |-> 0,
                      date |-> (clock + zone) \div TicksPerDay,
                      recap_day |-> 0, keep |-> 0, lose |-> 0,
                      lines |-> <<>>]]_vars

C19_Witness ==
    \E t \in Threads :
        /\ IsBoard(t) /\ \A u \in Users : ~HasRow(u)
        /\ g[t].result.keep = 0 /\ g[t].result.lose = 0
        /\ g[t].result.title_day = 0 /\ g[t].result.lines = <<>>

\* The text goroutine t was handed starts, behind k whitespace characters
\* and in any letter case, with the characters of tok.
UpperOf(c) ==
    CASE c = "a" -> "A" [] c = "b" -> "B" [] c = "d" -> "D" [] c = "e" -> "E"
      [] c = "l" -> "L" [] c = "o" -> "O" [] c = "p" -> "P" [] c = "r" -> "R"
      [] OTHER -> c
StartsWith(t, tok) ==
    LET s == g[t].text.s
    IN  \E k \in 0 .. Len(s) :
            /\ \A i \in 1 .. k : s[i] \in Whitespace
            /\ k + Len(tok) <= Len(s)
            /\ \A i \in 1 .. Len(tok) : s[k + i] \in {tok[i], UpperOf(tok[i])}

\* C20: HandleMessageUsecase.Execute hands a text to the report operation
\* when, whitespace trimmed and case folded, it starts with "#lapor", to the
\* leaderboard operation when it starts with "#leaderboard", trailing text
\* or not; a text without the leading "#" is handed to neither.
C20_Dispatch ==
    \A t \in Threads :
        g[t].text # Nil =>
            /\ StartsWith(t, CmdLapor)
                  => g[t].pc \in {"now", "upsert"} /\ g[t].user # ""
            /\ StartsWith(t, CmdLeaderboard) => g[t].pc = "board"
            /\ ~StartsWith(t, <<"#">>)
                  => g[t].pc = "done" /\ g[t].result = NoMsg /\ ~g[t].err

C20_Witness ==
    \E t \in Threads :
        /\ g[t].pc = "now"
        /\ g[t].text = [s |-> <<"\t", "#", "L", "a", "P", "o", "r", " ",
                                "l", "a", "r", "i">>]

\* C21: for the empty text and for any text that starts with neither
\* command, HandleMessageUsecase.Execute returns the empty string and no
\* error at once, without entering either use case (no GetReport,
\* UpsertReport or GetAllReports), and the table is unchanged.
C21_NoMatchNoEffect ==
    [][\A t \in Threads :
         (g[t].pc = "idle" /\ g'[t].text # Nil
             /\ ~(StartsWith(t, CmdLapor))'
             /\ ~(StartsWith(t, CmdLeaderboard))')
            => /\ g'[t].pc = "done"
               /\ g'[t].result = NoMsg /\ ~g'[t].err
               /\ g'[t].read = Nil /\ g'[t].report = Nil
               /\ g'[t].reports = <<>>
               /\ store' = store]_vars

C21_Witness ==
    \E t \in Threads :
        /\ g[t].pc = "done" /\ g[t].text = [s |-> <<"#", "l", "a", "p", "o">>]
        /\ g[t].result = NoMsg
        /\ \E u \in Users : HasRow(u)

\* C22: a message enters at most one of the two use cases; the steps of a
\* #leaderboard message never write the table, the steps of a #lapor
\* message change no record but the sender's, and the accepted message comes
\* back as the report use case built it.
C22_OneOperation ==
    [][\A t \in Threads :
         /\ (g[t].text # Nil /\ StartsWith(t, CmdLeaderboard))
               => store' = store /\ g'[t].pc \notin {"now", "upsert"}
         /\ (g[t].text # Nil /\ StartsWith(t, CmdLapor))
               => /\ \A v \in Users \ {g[t].user} : store'[v] = store[v]
                  /\ g'[t].pc # "board" /\ g'[t].reports = <<>>
         /\ Steps(t, "upsert", "done")
               => g'[t].result = AcceptedMsg(g[t].name,
                                             store'[g[t].user].activity_count)]_vars

C22_Witness ==
    \E t \in Threads, v \in Users :
        /\ g[t].pc = "upsert" /\ g[t].text # Nil /\ StartsWith(t, CmdLapor)
        /\ v # g[t].user /\ HasRow(v)

\* C23: the count in the accepted message is the activityCount this
\* invocation wrote (one more than it read, 1 for a first report), whatever
\* the streak it wrote.
C23_PrintedCountIsWritten ==
    [][\A t \in Threads :
         (Steps(t, "upsert", "done") /\ ~g'[t].err) =>
            /\ g'[t].result.msg = "diterima"
            /\ g'[t].result.count = store'[g[t].user].activity_count
            /\ g'[t].result.count =
                  IF g[t].read = Nil THEN 1 ELSE g[t].read.ActivityCount + 1]_vars

C23_Witness ==
    \E t \in Threads :
        /\ g[t].pc = "done" /\ g[t].result.msg = "diterima"
        /\ g[t].result.count = 3
        /\ store[g[t].user].activity_count = 3
        /\ store[g[t].user].streak = 2

\* C24: the handler sends a reply exactly when Execute returned no error
\* and a non-empty response; after a failed write, an unrecognized text or
\* an empty message it sends nothing and returns.
C24_ReplyIffResponse ==
    [][\A t \in Threads :
         /\ Leaves(t, "done")
               => (g'[t].pc = "sent" <=> (~g[t].err /\ g[t].result # NoMsg))
         /\ g'[t].pc = "sent" => g[t].pc \in {"done", "sent"}
         /\ (Leaves(t, "done") /\ g'[t].pc # "sent") => g'[t].pc = "end"
         /\ Leaves(t, "end") => g'[t] = Idle]_vars

C24_Witness ==
    \E t \in Threads :
        /\ g[t].pc = "end" /\ g[t].err /\ g[t].report # Nil
        /\ g[t].result = NoMsg

\* C25: whatever GROUP_ID is set to, a message from a chat other than the
\* configured group, or from the bot itself, never reaches
\* HandleMessageUsecase.Execute and never changes the table.
C25_OnlyConfiguredGroup ==
    [][\A t \in Threads :
         (g[t].pc = "idle" /\ g'[t].chat # ""
             /\ (g'[t].chat # cfg.GroupID \/ g'[t].fromMe))
            => g'[t].pc = "end" /\ g'[t].text = Nil /\ store' = store]_vars

\* C26: report invocations of distinct members do not touch each other:
\* the write of an invocation for member A leaves every other record as it
\* was, and, however the invocations interleave, it writes what it would
\* have written running alone from the table as it now stands (the record
\* it read is still the stored one), so the outcome is that of running them
\* one after another.
C26_DistinctMembersIndependent ==
    [][\A t \in Threads :
         Steps(t, "upsert", "done") =>
            LET u == g[t].user
            IN  /\ \A v \in Users \ {u} : store'[v] = store[v]
                /\ store[u] = NoRow <=> g[t].read = Nil
                /\ store[u] # NoRow =>
                      /\ g[t].read.UserID = u
                      /\ g[t].read.Streak = store[u].streak
                      /\ g[t].read.ActivityCount = store[u].activity_count
                      /\ FormatRFC3339(g[t].read.LastReportDate)
                            = store[u].last_report_date
                /\ store'[u].activity_count = AcceptedTotal(u)']_vars

C26_Witness ==
    \E t, s \in Threads :
        /\ g[t].pc = "upsert" /\ g[s].pc = "upsert"
        /\ g[t].user # g[s].user
        /\ g[t].read # Nil /\ g[s].read = Nil

\* C27: a record, once in the table, is in the table in every later state
\* (no step of a report or leaderboard, however interleaved, removes a
\* row), and the table holds one row per member at most.
C27_NeverDeleted ==
    [][/\ \A u \in Users : HasRow(u) => HasRow(u)'
       /\ DOMAIN store' = Users]_vars

C27_Witness ==
    /\ \A u \in Users : HasRow(u)
    /\ \E t \in Threads : IsBoard(t) /\ g[t].result.lose = 1

\* C28: the classification of a report depends only on the calendar days
\* of the stored timestamp and of now in one common clock (the process's
\* zone), whatever offset the stored timestamp carries: on the same day the
\* report is rejected, on the next day the streak grows by one.
C28_CommonClockClassification ==
    [][\A t \in Threads :
         (Leaves(t, "now") /\ g[t].read # Nil) =>
            LET last == (g[t].read.LastReportDate.inst + zone) \div TicksPerDay
                today == (clock + zone) \div TicksPerDay
            IN  /\ last = today
                      => g'[t].pc = "done"
                         /\ g'[t].result = RejectedMsg(g[t].name)
                /\ last = today - 1
                      => g'[t].pc = "upsert"
                         /\ g'[t].report.Streak = g[t].read.Streak + 1]_vars

\* C29: a leaderboard computed while reports are in flight shows no torn
\* record: every record read is, whole, the row its member had in the table
\* at the moment of the read, and every line's name, number and section
\* come from one such record.
C29_NoTornRecord ==
    [][\A t \in Threads :
         /\ Steps(t, "idle", "board")
               => \A i \in DOMAIN g'[t].reports :
                     LET r == g'[t].reports[i]
                     IN  /\ store[r.UserID] # NoRow
                         /\ r.Name = store[r.UserID].name
                         /\ r.Streak = store[r.UserID].streak
                         /\ r.ActivityCount = store[r.UserID].activity_count
                         /\ FormatRFC3339(r.LastReportDate)
                               = store[r.UserID].last_report_date
         /\ Steps(t, "board", "done")
               => LET b == g'[t].result
                  IN  /\ Len(b.lines) = Len(g[t].reports)
                      /\ \A k \in DOMAIN b.lines :
                           \E r \in Range(g[t].reports) :
                              LET recent == DayOf(r.LastReportDate) \in
                                               {b.date, b.date - 1}
                              IN  /\ b.lines[k].name = r.Name
                                  /\ k <= b.keep <=> recent
                                  /\ b.lines[k].n = IF recent THEN r.Streak
                                                    ELSE r.ActivityCount]_vars

C29_Witness ==
    \E t, s \in Threads :
        /\ g[t].pc = "board" /\ Len(g[t].reports) = 1
        /\ g[s].pc = "done" /\ g[s].result.msg = "diterima"
        /\ g[s].user = g[t].reports[1].UserID
        /\ g[t].reports[1].ActivityCount # store[g[s].user].activity_count

\* C30: UpsertReport is insert-or-replace keyed by UserID: after it
\* succeeds GetReport of that UserID returns the UserID, Name, Streak and
\* ActivityCount written, whether or not a row was there before; that user
\* has one row and every other user's row is unchanged.
C30_UpsertThenGet ==
    [][\A t \in Threads, u \in Users :
         (Steps(t, "upsert", "done") /\ ~g'[t].err
             /\ g[t].report.UserID = u) =>
            /\ GetReport(u)' # Nil
            /\ GetReport(u)'.UserID = u
            /\ GetReport(u)'.Name = g[t].report.Name
            /\ GetReport(u)'.Streak = g[t].report.Streak
            /\ GetReport(u)'.ActivityCount = g[t].report.ActivityCount
            /\ \A v \in Users \ {u} : store'[v] = store[v]
            /\ DOMAIN store' = DOMAIN store]_vars

C30_Witness ==
    \E t \in Threads, v \in Users :
        /\ g[t].pc = "upsert" /\ HasRow(g[t].user) /\ g[t].user # v
        /\ HasRow(v)
        /\ g[t].report.Name # store[g[t].user].name
        /\ g[t].report.Streak # store[g[t].user].streak

\* C31: ReportRepository.GetAllReports returns every stored record exactly
\* once, in descending order of ActivityCount (the empty sequence for the
\* empty table).
C31_AllReportsByActivityCount ==
    \A t \in Threads :
        g[t].pc = "board" =>
            LET reports == g[t].reports
            IN  /\ Len(reports) = Cardinality({u \in Users : HasRow(u)})
                /\ \A u \in Users :
                      HasRow(u) => \E i \in DOMAIN reports :
                                      reports[i].UserID = u
                /\ \A i, j \in DOMAIN reports :
                      i < j => reports[i].ActivityCount
                                  >= reports[j].ActivityCount

\* C32: GetReport of a member never upserted returns nil and no error, and
\* on that nil Execute takes the create path (streak 1, count 1, now)
\* rather than failing.
C32_AbsentIsNil ==
    [][\A t \in Threads, u \in Users :
         /\ (Steps(t, "idle", "now") /\ g'[t].user = u
                /\ AcceptedTotal(u) = 0)
               => g'[t].read = Nil /\ ~g'[t].err
         /\ (Leaves(t, "now") /\ g[t].user = u /\ g[t].read = Nil)
               => /\ g'[t].pc = "upsert" /\ ~g'[t].err
                  /\ g'[t].report = Report(u, g[t].name, 1, 1, TimeNow)]_vars

C32_Witness ==
    \E t \in Threads, v \in Users :
        /\ g[t].pc = "upsert" /\ g[t].read = Nil
        /\ AcceptedTotal(g[t].user) = 0
        /\ v # g[t].user /\ HasRow(v)

\* C33: an Execute invocation reads once (on entry), then writes at most
\* once, after the read and in the same invocation; the rejected path
\* writes nothing, the table changes by no other step, and the accepted
\* message appears only with the invocation's successful UpsertReport.
C33_OneReadOneWrite ==
    [][/\ store' # store
            => \E t \in Threads : Steps(t, "upsert", "done") /\ ~g'[t].err
       /\ \A t \in Threads :
            /\ (g'[t].pc = "now" /\ g[t].pc # "now") => g[t].pc = "idle"
            /\ (g'[t].pc = "upsert" /\ g[t].pc # "upsert") => g[t].pc = "now"
            /\ Leaves(t, "upsert") => g'[t].pc = "done"
            /\ (g[t].pc = "now" /\ g'[t].pc \in {"now", "upsert"})
                  => g'[t].read = g[t].read
            /\ (g[t].pc = "upsert" /\ g'[t].pc = "upsert")
                  => g'[t].read = g[t].read /\ g'[t].report = g[t].report
            /\ Steps(t, "now", "done")
                  => g'[t].result = RejectedMsg(g[t].name) /\ store' = store
            /\ (g'[t].result.msg = "diterima" /\ g[t].result.msg # "diterima")
                  => /\ Steps(t, "upsert", "done")
                     /\ store' = UpsertReport(g[t].report)]_vars

C33_Witness ==
    \E t \in Threads :
        /\ g[t].pc = "done" /\ g[t].result.msg = "sudah laporan"
        /\ store[g[t].user].name # g[t].result.name
        /\ store[g[t].user].activity_count = 2

\* C34: under the non-decreasing clock, a member's stored lastReportDate
\* never moves to an earlier instant or an earlier calendar day from one
\* state to the next, however the concurrent invocations interleave.
C34_LastReportDateMonotone ==
    [][\A u \in Users :
         (HasRow(u) /\ HasRow(u)') =>
             LET old == ParseRFC3339(store[u].last_report_date)
                 new == ParseRFC3339(store'[u].last_report_date)
             IN  /\ new.inst >= old.inst
                 /\ DayOf(new) >= DayOf(old)]_vars

\* C35: for a member whose latest accepted report was on day D, a
\* leaderboard computed on D or D + 1 (from the table as it stands, no write
\* since its read) lists the member as active and one computed on D + 2 or
\* later lists the member as lost; the step that renders it leaves the table
\* as it was.
C35_ActiveThenLostWithoutWrite ==
    [][\A t \in Threads, u \in Users :
         (/\ Steps(t, "board", "done") /\ ~g'[t].err
          /\ g[t].reports \in GetAllReports
          /\ AcceptedDays(u) # {}) =>
             LET D     == LastAcceptedDay(u)
                 today == g'[t].result.date
             IN  /\ HasRow(u)
                 /\ today \in {D, D + 1}
                       => ActiveAt(t, u)' # {} /\ LostAt(t, u)' = {}
                 /\ today >= D + 2
                       => LostAt(t, u)' # {} /\ ActiveAt(t, u)' = {}
                 /\ store' = store]_vars

\* C36: when Execute finds a stored lastReportDate of a calendar day later
\* than today (the clock went backwards), the report is not rejected: the
\* record it writes has streak 1, ActivityCount one more and the earlier
\* now as lastReportDate, and the write overwrites the stored date with it;
\* a leaderboard computed while the stored day is later than today lists the
\* member as lost.
C36_ClockBackwards ==
    [][\A t \in Threads :
         /\ (/\ Leaves(t, "now") /\ g[t].read # Nil
             /\ DayOf(g[t].read.LastReportDate) > DayOf(TimeNow))
               => /\ g'[t].pc = "upsert"
                  /\ g'[t].report =
                       Report(g[t].user, g[t].name, 1,
                              g[t].read.ActivityCount + 1, TimeNow)
         /\ (/\ Steps(t, "upsert", "done") /\ g[t].read # Nil
             /\ DayOf(g[t].read.LastReportDate) > DayOf(g[t].now))
               => /\ g'[t].result =
                       AcceptedMsg(g[t].name, g[t].read.ActivityCount + 1)
                  /\ store'[g[t].user].streak = 1
                  /\ store'[g[t].user].activity_count
                       = g[t].read.ActivityCount + 1
                  /\ store'[g[t].user].last_report_date
                       = FormatRFC3339(g[t].now)
                  /\ ParseRFC3339(store'[g[t].user].last_report_date).inst
                       < ParseRFC3339(store[g[t].user].last_report_date).inst
         /\ (Steps(t, "board", "done") /\ ~g'[t].err)
               => \A i \in DOMAIN g[t].reports :
                     LET r == g[t].reports[i]
                     IN  DayOf(r.LastReportDate) > DayOf(TimeNow) =>
                             LET at == {j \in DOMAIN g'[t].result.lines :
                                           g'[t].result.lines[j].name = r.Name}
                             IN  /\ at # {}
                                 /\ \A j \in at : j > g'[t].result.keep]_vars

C36_Witness ==
    \E t \in Threads :
        /\ g[t].pc = "done" /\ g[t].result.msg = "diterima"
        /\ g[t].result.count = 2
        /\ store[g[t].user].streak = 1
        /\ store[g[t].user].last_report_date.date = 0
        /\ accepted[g[t].user][1] = 1 /\ accepted[g[t].user][0] = 1
        /\ clock < TicksPerDay

\* C37: every stored record read by the leaderboard is on exactly one rank
\* line, in exactly one section, the ranks run 1, 2, ... without a gap, and
\* the printed active count plus the printed lost count is the number of
\* records.
C37_EveryRecordOnce ==
    \A t \in Threads :
        IsBoard(t) =>
            LET res  == g[t].result
                rows == {u \in Users : HasRow(u)}
            IN  /\ Len(res.lines) = Cardinality(rows)
                /\ res.keep + res.lose = Cardinality(rows)
                /\ \A i \in DOMAIN res.lines : res.lines[i].rank = i
                /\ \A u \in rows :
                      /\ Cardinality({i \in DOMAIN res.lines :
                                         res.lines[i].name = store[u].name}) = 1
                      /\ Cardinality(ActiveAt(t, u)) + Cardinality(LostAt(t, u)) = 1
                      /\ (ActiveAt(t, u) = {}) # (LostAt(t, u) = {})
                /\ Cardinality({i \in DOMAIN res.lines :
                                   res.lines[i].line = "days streak"}) = res.keep
                /\ Cardinality({i \in DOMAIN res.lines :
                                   res.lines[i].line = "Day"}) = res.lose

C37_Witness ==
    \E t \in Threads :
        /\ IsBoard(t)
        /\ \A u \in Users : HasRow(u)
        /\ g[t].result.keep = 1 /\ g[t].result.lose = 1
        /\ \E u \in Users : store[u].last_report_date.date = g[t].result.date - 1

====
